---- MODULE Spec2Model ----
(***************************************************************************)
(* Model of the semver package (semver.go): the format validator Valid,    *)
(* the parser buildVersion and the comparisons GreaterThanOrEqual,         *)
(* SmallerThanOrEqual and InRange.                                         *)
(*                                                                         *)
(* A Go string is modelled as a sequence of one-character strings.  Every  *)
(* operation of the package is a pure function of its arguments, so the    *)
(* state of the model is the last call made: the operation, its arguments  *)
(* and what it returned.                                                   *)
(***************************************************************************)
EXTENDS Integers, Sequences, FiniteSets, TLC

VARIABLES op, args, ret

vars == <<op, args, ret>>

(***************************************************************************)
(* Character classes of the pattern compiled in New (RE2 syntax: \d is     *)
(* [0-9], the classes are ASCII).                                          *)
(***************************************************************************)
Digit == {"0", "1", "2", "3", "4", "5", "6", "7", "8", "9"}

NonZeroDigit == Digit \ {"0"}

Letter ==
  {"a", "b", "c", "d", "e", "f", "g", "h", "i", "j", "k", "l", "m",
   "n", "o", "p", "q", "r", "s", "t", "u", "v", "w", "x", "y", "z",
   "A", "B", "C", "D", "E", "F", "G", "H", "I", "J", "K", "L", "M",
   "N", "O", "P", "Q", "R", "S", "T", "U", "V", "W", "X", "Y", "Z"}

\* [a-zA-Z-]
LetterDash == Letter \cup {"-"}

\* [0-9a-zA-Z-]
AlnumDash == Digit \cup Letter \cup {"-"}

(***************************************************************************)
(* The pattern, piece by piece.  Each piece maps a set P of positions of s *)
(* (0..Len(s), the number of characters consumed so far) to the set of     *)
(* positions at which a match of the piece started in P can end.           *)
(***************************************************************************)
\* one character of class C
ReClass(s, P, C) == {p + 1 : p \in {q \in P : q < Len(s) /\ s[q + 1] \in C}}

\* C*: no character of class C, or one more after a match of C*
RECURSIVE ReStar(_, _, _)
ReStar(s, P, C) ==
  LET Q == ReClass(s, P, C)
  IN  IF Q \subseteq P THEN P ELSE ReStar(s, P \cup Q, C)

\* a mutant of ReNumeric: \d+, which lets leading zeros through
ReNumericLeadingZeros(s, P) == ReStar(s, ReClass(s, P, Digit), Digit)

\* (0|[1-9]\d*)
ReNumeric(s, P) ==
  ReClass(s, P, {"0"}) \cup ReStar(s, ReClass(s, P, NonZeroDigit), Digit)

\* (?:0|[1-9]\d*|\d*[a-zA-Z-][0-9a-zA-Z-]*)
ReIdentifier(s, P) ==
  ReNumeric(s, P)
    \cup ReStar(s, ReClass(s, ReStar(s, P, Digit), LetterDash), AlnumDash)

\* (?:\.(?:0|[1-9]\d*|\d*[a-zA-Z-][0-9a-zA-Z-]*))*
RECURSIVE ReIdentifierTail(_, _)
ReIdentifierTail(s, P) ==
  LET Q == ReIdentifier(s, ReClass(s, P, {"."}))
  IN  IF Q \subseteq P THEN P ELSE ReIdentifierTail(s, P \cup Q)

\* (?:-(identifier(?:\.identifier)*))?
RePrerelease(s, P) ==
  P \cup ReIdentifierTail(s, ReIdentifier(s, ReClass(s, P, {"-"})))

\* [0-9a-zA-Z-]+
ReBuildSegment(s, P) == ReStar(s, ReClass(s, P, AlnumDash), AlnumDash)

\* (?:\.[0-9a-zA-Z-]+)*
RECURSIVE ReBuildTail(_, _)
ReBuildTail(s, P) ==
  LET Q == ReBuildSegment(s, ReClass(s, P, {"."}))
  IN  IF Q \subseteq P THEN P ELSE ReBuildTail(s, P \cup Q)

\* (?:\+([0-9a-zA-Z-]+(?:\.[0-9a-zA-Z-]+)*))?
ReBuildmeta(s, P) ==
  P \cup ReBuildTail(s, ReBuildSegment(s, ReClass(s, P, {"+"})))

\* ^(0|[1-9]\d*)\.(0|[1-9]\d*)\.(0|[1-9]\d*)
ReCore(s) ==
  ReNumeric(s, ReClass(s,
    ReNumeric(s, ReClass(s, ReNumeric(s, {0}), {"."})), {"."}))

\* reValid.MatchString: ^ is position 0 and $ (no multi-line flag) is the
\* end of the text.
MatchString(s) == Len(s) \in ReBuildmeta(s, RePrerelease(s, ReCore(s)))

\* func (s *Semver) Valid
Valid(version) == MatchString(version)

(***************************************************************************)
(* Errors.  A nil error is NoErr; errors.Errorf("<label> `%s` is invalid", *)
(* value) keeps the label and the value of its message apart; an error of  *)
(* strconv.Atoi keeps the text it was given.  errors.Trace records the     *)
(* caller's location and leaves the message as it is.                      *)
(***************************************************************************)
NoErr == [kind |-> "nil", label |-> "", value |-> <<>>]

InvalidErr(label, value) == [kind |-> "invalid", label |-> label, value |-> value]

ParseErr(kind, value) == [kind |-> kind, label |-> "", value |-> value]

Trace(err) == err

(***************************************************************************)
(* package strings                                                         *)
(***************************************************************************)
\* strings.Index for a one-character separator, 1-based; 0 when absent
Index(s, c) ==
  IF \E i \in 1..Len(s) : s[i] = c
    THEN CHOOSE i \in 1..Len(s) : s[i] = c /\ \A j \in 1..(i - 1) : s[j] # c
    ELSE 0

\* strings.Contains
Contains(s, c) == Index(s, c) # 0

\* strings.SplitN(s, c, 2): cut at the first separator only
SplitN2(s, c) ==
  IF Contains(s, c)
    THEN <<SubSeq(s, 1, Index(s, c) - 1), SubSeq(s, Index(s, c) + 1, Len(s))>>
    ELSE <<s>>

\* strings.Split(s, c): cut at every separator; no separator gives <<s>>
RECURSIVE Split(_, _)
Split(s, c) ==
  IF Contains(s, c)
    THEN <<SubSeq(s, 1, Index(s, c) - 1)>>
           \o Split(SubSeq(s, Index(s, c) + 1, Len(s)), c)
    ELSE <<s>>

(***************************************************************************)
(* strconv.Atoi, with int 64 bits wide.  Values are computed as TLA+       *)
(* integers, so the model's inputs hold numbers of few digits and numbers  *)
(* beyond the range of int, whose conversion fails before a value is made. *)
(***************************************************************************)
DigitChars == <<"0", "1", "2", "3", "4", "5", "6", "7", "8", "9">>

DigitVal(c) == (CHOOSE i \in 1..10 : DigitChars[i] = c) - 1

\* math.MaxInt64 and -math.MinInt64, in decimal
MaxInt64Digits ==
  <<"9", "2", "2", "3", "3", "7", "2", "0", "3", "6", "8", "5", "4", "7",
    "7", "5", "8", "0", "7">>

MinInt64Digits ==
  <<"9", "2", "2", "3", "3", "7", "2", "0", "3", "6", "8", "5", "4", "7",
    "7", "5", "8", "0", "8">>

RECURSIVE StripZeros(_)
StripZeros(d) ==
  IF Len(d) > 1 /\ d[1] = "0" THEN StripZeros(Tail(d)) ELSE d

\* d > limit, for digit sequences without leading zeros
DigitsExceed(d, limit) ==
  \/ Len(d) > Len(limit)
  \/ /\ Len(d) = Len(limit)
     /\ \E i \in 1..Len(d) :
          /\ DigitVal(d[i]) > DigitVal(limit[i])
          /\ \A j \in 1..(i - 1) : d[j] = limit[j]

RECURSIVE DigitsValue(_, _)
DigitsValue(d, n) ==
  IF d = <<>> THEN n ELSE DigitsValue(Tail(d), n * 10 + DigitVal(Head(d)))

Atoi(s) ==
  LET signed == s # <<>> /\ s[1] \in {"+", "-"}
      neg    == s # <<>> /\ s[1] = "-"
      digits == IF signed THEN Tail(s) ELSE s
  IN  IF digits = <<>> \/ \E i \in 1..Len(digits) : digits[i] \notin Digit
        THEN [n |-> 0, err |-> ParseErr("syntax", s)]
      ELSE IF DigitsExceed(StripZeros(digits),
                           IF neg THEN MinInt64Digits ELSE MaxInt64Digits)
        THEN [n |-> 0, err |-> ParseErr("range", s)]
      ELSE [n   |-> IF neg THEN 0 - DigitsValue(digits, 0)
                           ELSE DigitsValue(digits, 0),
            err |-> NoErr]

(***************************************************************************)
(* buildVersion                                                            *)
(***************************************************************************)
expectedChunksWithTag == 2

exptectedPartsWithRevision == 3

\* the zero value of semVersion
ZeroVersion == [major |-> 0, minor |-> 0, revision |-> 0, tag |-> <<>>]

\* a failed parse returns a nil *semVersion, which no caller reads
Failed(err) == [v |-> ZeroVersion, err |-> err]

\* func (s *Semver) buildVersion
buildVersion(version) ==
  LET hasTag == Contains(version, "-")
      chunks == SplitN2(version, "-")
      tag    == IF hasTag /\ Len(chunks) = expectedChunksWithTag
                  THEN chunks[2] ELSE <<>>
      core   == IF hasTag /\ Len(chunks) = expectedChunksWithTag
                  THEN chunks[1] ELSE version
      versionParts       == Split(core, ".")
      versionPartsLength == Len(versionParts)
      major    == Atoi(versionParts[1])
      minor    == Atoi(versionParts[2])
      revision == Atoi(versionParts[3])
  IN  IF hasTag /\ Len(chunks) # expectedChunksWithTag
        THEN Failed(ParseErr("chunks", version))
      ELSE IF versionPartsLength # 2 /\ versionPartsLength # 3
        THEN Failed(ParseErr("parts", core))
      ELSE IF major.err # NoErr THEN Failed(Trace(major.err))
      ELSE IF minor.err # NoErr THEN Failed(Trace(minor.err))
      ELSE IF versionPartsLength = exptectedPartsWithRevision
        THEN IF revision.err # NoErr THEN Failed(Trace(revision.err))
             ELSE [v   |-> [major |-> major.n, minor |-> minor.n,
                            revision |-> revision.n, tag |-> tag],
                   err |-> NoErr]
      ELSE [v   |-> [major |-> major.n, minor |-> minor.n,
                     revision |-> 0, tag |-> tag],
            err |-> NoErr]

(***************************************************************************)
(* The comparisons.  Each returns the pair (bool, error) as a record.      *)
(***************************************************************************)
Return(ok, err) == [ok |-> ok, err |-> err]

\* a mutant of GreaterThanOrEqual: compare is parsed without being validated
GreaterThanOrEqualUncheckedCompare(version, compare) ==
  LET semVersion == buildVersion(version)
      semCompare == buildVersion(compare)
  IN  IF ~Valid(version) THEN Return(FALSE, InvalidErr("version", version))
      ELSE IF semVersion.err # NoErr THEN Return(FALSE, Trace(semVersion.err))
      ELSE IF semCompare.err # NoErr THEN Return(FALSE, Trace(semCompare.err))
      ELSE IF semVersion.v.major < semCompare.v.major THEN Return(FALSE, NoErr)
      ELSE IF semVersion.v.major > semCompare.v.major THEN Return(TRUE, NoErr)
      ELSE IF semVersion.v.minor < semCompare.v.minor THEN Return(FALSE, NoErr)
      ELSE IF semVersion.v.minor > semCompare.v.minor THEN Return(TRUE, NoErr)
      ELSE Return(semVersion.v.revision >= semCompare.v.revision, NoErr)

\* func (s *Semver) GreaterThanOrEqual
GreaterThanOrEqual(version, compare) ==
  LET semVersion == buildVersion(version)
      semCompare == buildVersion(compare)
  IN  IF ~Valid(version) THEN Return(FALSE, InvalidErr("version", version))
      ELSE IF ~Valid(compare) THEN Return(FALSE, InvalidErr("compare", compare))
      ELSE IF semVersion.err # NoErr THEN Return(FALSE, Trace(semVersion.err))
      ELSE IF semCompare.err # NoErr THEN Return(FALSE, Trace(semCompare.err))
      ELSE IF semVersion.v.major < semCompare.v.major THEN Return(FALSE, NoErr)
      ELSE IF semVersion.v.major > semCompare.v.major THEN Return(TRUE, NoErr)
      ELSE IF semVersion.v.minor < semCompare.v.minor THEN Return(FALSE, NoErr)
      ELSE IF semVersion.v.minor > semCompare.v.minor THEN Return(TRUE, NoErr)
      ELSE Return(semVersion.v.revision >= semCompare.v.revision, NoErr)

\* func (s *Semver) SmallerThanOrEqual
SmallerThanOrEqual(version, compare) ==
  LET semVersion == buildVersion(version)
      semCompare == buildVersion(compare)
  IN  IF ~Valid(version) THEN Return(FALSE, InvalidErr("version", version))
      ELSE IF ~Valid(compare) THEN Return(FALSE, InvalidErr("compare", compare))
      ELSE IF semVersion.err # NoErr THEN Return(FALSE, Trace(semVersion.err))
      ELSE IF semCompare.err # NoErr THEN Return(FALSE, Trace(semCompare.err))
      ELSE IF semVersion.v.major > semCompare.v.major THEN Return(FALSE, NoErr)
      ELSE IF semVersion.v.major < semCompare.v.major THEN Return(TRUE, NoErr)
      ELSE IF semVersion.v.minor > semCompare.v.minor THEN Return(FALSE, NoErr)
      ELSE IF semVersion.v.minor < semCompare.v.minor THEN Return(TRUE, NoErr)
      ELSE Return(semVersion.v.revision <= semCompare.v.revision, NoErr)

\* a mutant of InRange: the upper bound is checked even when end is empty
InRangeEndAlwaysChecked(version, start, end) ==
  LET lower == GreaterThanOrEqual(version, start)
      upper == SmallerThanOrEqual(version, end)
  IN  IF lower.err # NoErr THEN Return(FALSE, Trace(lower.err))
      ELSE IF upper.err # NoErr THEN Return(FALSE, Trace(upper.err))
      ELSE Return(lower.ok /\ upper.ok, NoErr)

\* func (s *Semver) InRange
InRange(version, start, end) ==
  LET lower == GreaterThanOrEqual(version, start)
      upper == SmallerThanOrEqual(version, end)
  IN  IF lower.err # NoErr THEN Return(FALSE, Trace(lower.err))
      ELSE IF end # <<>>
        THEN IF upper.err # NoErr THEN Return(FALSE, Trace(upper.err))
             ELSE Return(lower.ok /\ upper.ok, NoErr)
      ELSE Return(lower.ok /\ TRUE, NoErr)

(***************************************************************************)
(* Inputs.                                                                 *)
(***************************************************************************)
\* the largest multiple of 5 a component of a generated core takes, in fives
MaxVal == 2

\* the longest core candidate and the longest tail candidate given to Valid
MaxCoreLen == 5

MaxTailLen == 2

RECURSIVE IntToDigits(_)
IntToDigits(n) ==
  IF n < 10 THEN <<DigitChars[n + 1]>>
  ELSE IntToDigits(n \div 10) \o <<DigitChars[(n % 10) + 1]>>

Values == {5 * k : k \in 0..MaxVal}

Core(major, minor, revision) ==
  IntToDigits(major) \o <<".">> \o IntToDigits(minor) \o <<".">>
    \o IntToDigits(revision)

Cores == {Core(a, b, c) : a \in Values, b \in Values, c \in Values}

\* nothing, a tag, build metadata, both
Suffixes ==
  {<<>>,
   <<"-", "a">>,
   <<"+", "b">>,
   <<"-", "a", "+", "b">>}

\* build metadata holding a dash, after a core and after a tag, and build
\* metadata holding a dot
BuildExtras ==
  {<<"0", ".", "5", ".", "1", "0", "+", "b", "-", "a">>,
   <<"0", ".", "5", ".", "1", "0", "-", "a", "+", "b", "-", "a">>,
   <<"0", ".", "5", ".", "1", "0", "+", "b", ".", "0">>}

\* invalidVersions of the tests, the empty string and a leading zero
Malformed ==
  {<<>>,
   <<"9">>,
   <<"2", ".", "0">>,
   <<"8", ".">>,
   <<"1", ".", "2", ".">>,
   <<"9", ".", "7", ".", "0", ".">>,
   <<"3", ".", "8", ".", "2", "-">>,
   <<"0", "1", ".", "2", ".", "3">>}

\* validVersions of the tests
TestValidVersions ==
  {<<"0", ".", "0", ".", "0">>,
   <<"1", ".", "2", ".", "3">>,
   <<"1", "1", ".", "3", ".", "9">>,
   <<"1", "9", "2", ".", "1", "0", ".", "9", "9", "9">>,
   <<"1", ".", "9", ".", "1", "8", "-", "h", "o", "t", "f", "i", "x">>,
   <<"1", ".", "0", ".", "5", "-", "m", "a", "s", "t", "e", "r">>,
   <<"1", "0", ".", "5", ".", "7", "-", "w", "i", "t", "h", "-", "m", "u", "l", "t", "i", "p", "l", "e", "-", "d", "a", "s", "h", "e", "s">>,
   <<"1", "0", ".", "5", ".", "7", "-", "d", "a", "s", "h", "e", "s", "-", "a", "n", "d", ".", "d", "o", "t", "s">>}

\* a version Valid accepts whose major is math.MaxInt64 + 1
Overflowing == MinInt64Digits \o <<".", "0", ".", "0">>

\* the operands given to the comparisons
Versions ==
  {c \o x : c \in Cores, x \in Suffixes}
    \cup BuildExtras \cup Malformed \cup {Overflowing}

\* the range bounds given to InRange: the cores with three equal components,
\* bare, tagged or with build metadata, and some that are malformed
Bounds ==
  {Core(a, a, a) \o x : a \in Values,
                        x \in {<<>>, <<"-", "a">>, <<"+", "b">>}}
    \cup {<<>>, <<"8", ".">>, <<"3", ".", "8", ".", "2", "-">>, Overflowing}

SeqsUpTo(A, n) == UNION {[1..k -> A] : k \in 0..n}

\* longer tails: a tag with build metadata, numeric identifiers, empty
\* elements, capitals, characters outside every class, a final newline
ExtraTails ==
  {<<"-", "a", "+", "0">>,
   <<"-", "0", ".", "a", "+", "0", ".", "a">>,
   <<"-", "0", "a">>,
   <<"-", "0", "0">>,
   <<"-", "0", "1">>,
   <<"-", "1", "0">>,
   <<"-", "a", ".">>,
   <<"-", ".", "a">>,
   <<"-", "a", ".", "0">>,
   <<"-", "a", ".", ".", "0">>,
   <<"-", "0", ".", "0">>,
   <<"+", "a", ".">>,
   <<"+", "0", ".", "0">>,
   <<"+", "0", "0">>,
   <<"-", "a", "+">>,
   <<"+", "a", "+", "a">>,
   <<"+", "a", "-", "a">>,
   <<"-", "a", "-", "a">>,
   <<"-", "A", ".", "Z">>,
   <<"+", "Z", "9">>,
   <<"-", "a", "!">>,
   <<"+", "a", "_">>,
   <<"-", "a", " ">>,
   <<"\n">>}

\* the strings given to Valid alone: every short string over the characters
\* of a core followed by every short string over the characters of a tail
ValidInputs ==
  {c \o x : c \in SeqsUpTo({"0", "1", "."}, MaxCoreLen),
            x \in SeqsUpTo({"0", "a", "-", ".", "+"}, MaxTailLen) \cup ExtraTails}
    \cup TestValidVersions \cup Malformed

(***************************************************************************)
(* The state machine.  New has built the validator, which holds nothing    *)
(* but the compiled pattern; a caller calls one method, reads what it      *)
(* returned, and the validator is idle again.                              *)
(***************************************************************************)
Init ==
  /\ op = "idle"
  /\ args = <<>>
  /\ ret = Return(TRUE, NoErr)

CallValid(inputs) ==
  /\ op = "idle"
  /\ \E version \in inputs :
       /\ op' = "Valid"
       /\ args' = <<version>>
       /\ ret' = Return(Valid(version), NoErr)

CallGreaterThanOrEqual ==
  /\ op = "idle"
  /\ \E version \in Versions, compare \in Versions :
       /\ op' = "GreaterThanOrEqual"
       /\ args' = <<version, compare>>
       /\ ret' = GreaterThanOrEqual(version, compare)

CallSmallerThanOrEqual ==
  /\ op = "idle"
  /\ \E version \in Versions, compare \in Versions :
       /\ op' = "SmallerThanOrEqual"
       /\ args' = <<version, compare>>
       /\ ret' = SmallerThanOrEqual(version, compare)

CallInRange ==
  /\ op = "idle"
  /\ \E version \in Versions, start \in Bounds, end \in Bounds :
       /\ op' = "InRange"
       /\ args' = <<version, start, end>>
       /\ ret' = InRange(version, start, end)

\* the caller has read the result
Done ==
  /\ op # "idle"
  /\ op' = "idle"
  /\ args' = <<>>
  /\ ret' = Return(TRUE, NoErr)

Next ==
  \/ CallValid(Versions)
  \/ CallGreaterThanOrEqual
  \/ CallSmallerThanOrEqual
  \/ CallInRange
  \/ Done

Spec == Init /\ [][Next]_vars

\* Valid alone, over ValidInputs
NextValid ==
  \/ CallValid(ValidInputs)
  \/ Done

SpecValid == Init /\ [][NextValid]_vars

(***************************************************************************)
(* The grammar of a version and the integer triple of its core, as the     *)
(* specification words them: the reference the calls are compared with.    *)
(***************************************************************************)
AllIn(x, C) == \A i \in 1..Len(x) : x[i] \in C

\* numeric := "0" | nonzero digit*
IsNumericText(x) ==
  \/ x = <<"0">>
  \/ x # <<>> /\ x[1] \in NonZeroDigit /\ AllIn(x, Digit)

\* identifier := numeric | a non-empty run of [0-9A-Za-z-] holding a non-digit
IsIdentifierText(x) ==
  \/ IsNumericText(x)
  \/ x # <<>> /\ AllIn(x, AlnumDash) /\ \E i \in 1..Len(x) : x[i] \in LetterDash

\* a segment of build metadata: a non-empty run of [0-9A-Za-z-]
IsBuildSegmentText(x) == x # <<>> /\ AllIn(x, AlnumDash)

\* the maximal dot-free runs of x, as <<first, last>> (last = first - 1 for
\* an empty run): one more than x has dots
Runs(x) ==
  {r \in (1..(Len(x) + 1)) \X (0..Len(x)) :
     /\ r[2] >= r[1] - 1
     /\ r[1] = 1 \/ x[r[1] - 1] = "."
     /\ r[2] = Len(x) \/ x[r[2] + 1] = "."
     /\ \A k \in r[1]..r[2] : x[k] # "."}

\* x is a dot-separated list whose every element satisfies Ok
DotList(x, Ok(_)) == \A r \in Runs(x) : Ok(SubSeq(x, r[1], r[2]))

\* core := numeric "." numeric "." numeric
IsCoreText(x) == Cardinality(Runs(x)) = 3 /\ DotList(x, IsNumericText)

\* the core of a version of the grammar: what precedes the first - or +
CoreText(s) ==
  IF \E i \in 1..Len(s) : s[i] \in {"-", "+"}
    THEN SubSeq(s, 1, (CHOOSE i \in 1..Len(s) :
                         /\ s[i] \in {"-", "+"}
                         /\ \A j \in 1..(i - 1) : s[j] \notin {"-", "+"}) - 1)
    ELSE s

\* the k-th numeric of the core, as text
Field(s, k) ==
  LET x == CoreText(s)
      r == CHOOSE r \in Runs(x) :
             Cardinality({q \in Runs(x) : q[1] < r[1]}) = k - 1
  IN  SubSeq(x, r[1], r[2])

\* a < b, for numerics of the grammar read as integers of any size
DecimalLess(a, b) ==
  \/ Len(a) < Len(b)
  \/ /\ Len(a) = Len(b)
     /\ \E i \in 1..Len(a) :
          /\ DigitVal(a[i]) < DigitVal(b[i])
          /\ \A j \in 1..(i - 1) : a[j] = b[j]

SameTriple(a, b) == \A k \in 1..3 : Field(a, k) = Field(b, k)

\* (major, minor, revision) of a against that of b, field by field
TripleGreaterOrEqual(a, b) ==
  IF Field(a, 1) # Field(b, 1) THEN DecimalLess(Field(b, 1), Field(a, 1))
  ELSE IF Field(a, 2) # Field(b, 2) THEN DecimalLess(Field(b, 2), Field(a, 2))
  ELSE ~DecimalLess(Field(a, 3), Field(b, 3))

TripleSmallerOrEqual(a, b) ==
  IF Field(a, 1) # Field(b, 1) THEN DecimalLess(Field(a, 1), Field(b, 1))
  ELSE IF Field(a, 2) # Field(b, 2) THEN DecimalLess(Field(a, 2), Field(b, 2))
  ELSE ~DecimalLess(Field(b, 3), Field(a, 3))

\* the tag of a version: what follows its first -
TagText(s) ==
  IF \E i \in 1..Len(s) : s[i] = "-"
    THEN SubSeq(s, (CHOOSE i \in 1..Len(s) :
                      s[i] = "-" /\ \A j \in 1..(i - 1) : s[j] # "-") + 1, Len(s))
    ELSE <<>>

\* the pre-release of a version of the grammar: between the - that ends the
\* core and the + that starts the build metadata
PrereleaseText(s) ==
  LET x == CoreText(s)
      rest == SubSeq(s, Len(x) + 1, Len(s))
  IN  IF rest # <<>> /\ rest[1] = "-"
        THEN IF \E i \in 1..Len(rest) : rest[i] = "+"
               THEN SubSeq(rest, 2, (CHOOSE i \in 1..Len(rest) :
                                       /\ rest[i] = "+"
                                       /\ \A j \in 1..(i - 1) : rest[j] # "+") - 1)
               ELSE Tail(rest)
        ELSE <<>>

\* the build metadata of a version of the grammar: what follows the first +
\* (which no core and no pre-release holds)
BuildText(s) ==
  SubSeq(s, (CHOOSE i \in 1..Len(s) :
               s[i] = "+" /\ \A j \in 1..(i - 1) : s[j] # "+") + 1, Len(s))

HasBuild(s) == \E i \in 1..Len(s) : s[i] = "+"

\* what follows the core is a - or a +
HasPrerelease(s) ==
  Len(CoreText(s)) < Len(s) /\ s[Len(CoreText(s)) + 1] = "-"

\* version := core ("-" prerelease)? ("+" buildmeta)?
InGrammar(s) ==
  /\ IsCoreText(CoreText(s))
  /\ HasPrerelease(s) => DotList(PrereleaseText(s), IsIdentifierText)
  /\ HasBuild(s) => DotList(BuildText(s), IsBuildSegmentText)

IsComparison == op \in {"GreaterThanOrEqual", "SmallerThanOrEqual"}

\* every operand of the call is valid (an empty end of InRange is no operand)
OperandsValid ==
  /\ op \in {"GreaterThanOrEqual", "SmallerThanOrEqual", "InRange"}
  /\ Valid(args[1])
  /\ Valid(args[2])
  /\ op = "InRange" => args[3] = <<>> \/ Valid(args[3])

\* the call of the state made again with the operands a
Again(a) ==
  CASE op = "GreaterThanOrEqual" -> GreaterThanOrEqual(a[1], a[2])
    [] op = "SmallerThanOrEqual" -> SmallerThanOrEqual(a[1], a[2])
    [] op = "InRange" -> InRange(a[1], a[2], a[3])

(***************************************************************************)
(* The claims.                                                             *)
(***************************************************************************)

\* C1: for valid version and compare, GreaterThanOrEqual returns the
\* comparison of the integer triples: by major if the majors differ, else by
\* minor if the minors differ, else version.revision >= compare.revision.
C1_GreaterThanOrEqualIsLexicographic ==
  (op = "GreaterThanOrEqual" /\ OperandsValid)
    => ret.ok = TripleGreaterOrEqual(args[1], args[2])

\* C2: for valid version and compare, SmallerThanOrEqual returns the mirror
\* image: by major, else by minor, else version.revision <= compare.revision.
C2_SmallerThanOrEqualIsLexicographic ==
  (op = "SmallerThanOrEqual" /\ OperandsValid)
    => ret.ok = TripleSmallerOrEqual(args[1], args[2])

\* C3: when InRange returns no error its result is GreaterThanOrEqual(version,
\* start) and SmallerThanOrEqual(version, end); with an empty end it returns
\* what GreaterThanOrEqual(version, start) returns, result and error, so the
\* empty end is neither validated nor parsed and causes no error.
C3_InRangeIsBothBounds ==
  op = "InRange" =>
    LET lower == GreaterThanOrEqual(args[1], args[2])
        upper == SmallerThanOrEqual(args[1], args[3])
    IN  /\ (ret.err = NoErr /\ args[3] # <<>>) => ret.ok = (lower.ok /\ upper.ok)
        /\ args[3] = <<>> => ret = lower

\* C3, its case: InRange with an empty end has answered true without error.
C3_Witness ==
  /\ op = "InRange"
  /\ args[3] = <<>>
  /\ ret = Return(TRUE, NoErr)

\* C4: a comparison given an operand that Valid rejects returns an error and
\* false: version or compare of GreaterThanOrEqual and SmallerThanOrEqual;
\* version, start or a non-empty end of InRange, whatever the lower bound gave.
C4_InvalidOperandFails ==
  /\ (IsComparison /\ (~Valid(args[1]) \/ ~Valid(args[2])))
       => (ret.err # NoErr /\ ret.ok = FALSE)
  /\ (op = "InRange" /\ (\/ ~Valid(args[1])
                         \/ ~Valid(args[2])
                         \/ args[3] # <<>> /\ ~Valid(args[3])))
       => (ret.err # NoErr /\ ret.ok = FALSE)

\* C4, its case: InRange has failed on an invalid end although the version
\* is not below the start.
C4_Witness ==
  /\ op = "InRange"
  /\ GreaterThanOrEqual(args[1], args[2]) = Return(TRUE, NoErr)
  /\ args[3] # <<>>
  /\ ~Valid(args[3])
  /\ ret.err = InvalidErr("compare", args[3])
  /\ ret.ok = FALSE

\* C5: Valid never fails and is true exactly of the strings of the grammar
\* core ("-" prerelease)? ("+" buildmeta)?; it is false of the empty string,
\* of a core of fewer than three parts, of a trailing separator and of a
\* leading zero.
C5_ValidIsTheGrammar ==
  op = "Valid" =>
    /\ ret.err = NoErr
    /\ ret.ok = InGrammar(args[1])
    /\ args[1] \in Malformed => ret.ok = FALSE

\* C5, its case: Valid has accepted a version with a pre-release and build
\* metadata.
C5_Witness ==
  /\ op = "Valid"
  /\ ret.ok
  /\ PrereleaseText(args[1]) # <<>>
  /\ HasBuild(args[1])

\* C6: the tag never takes part in the ordering; in particular two valid
\* versions with the same (major, minor, revision) and different tags satisfy
\* both GreaterThanOrEqual and SmallerThanOrEqual.
C6_TagsNeverBreakTies ==
  (/\ IsComparison
   /\ OperandsValid
   /\ SameTriple(args[1], args[2])
   /\ TagText(args[1]) # TagText(args[2])
   /\ PrereleaseText(args[1]) # PrereleaseText(args[2]))
    => ret = Return(TRUE, NoErr)

\* C7: build metadata never affects a comparison: with "+b" appended to any
\* operand that has no build metadata, the operand is still valid and the
\* call returns the same boolean and the same error outcome.
C7_BuildMetadataIsInert ==
  OperandsValid =>
    \A i \in 1..Len(args) :
      (args[i] # <<>> /\ \A k \in 1..Len(args[i]) : args[i][k] # "+") =>
        LET withBuild == [args EXCEPT ![i] = @ \o <<"+", "b">>]
        IN  /\ Valid(withBuild[i])
            /\ Again(withBuild).ok = ret.ok
            /\ (Again(withBuild).err = NoErr) = (ret.err = NoErr)

\* C8: for valid a and b, GreaterThanOrEqual(a, b) and SmallerThanOrEqual(a, b)
\* are both true when a and b have the same (major, minor, revision), and
\* exactly one of them is true otherwise.
C8_ExactlyOneUnlessEqual ==
  (op = "GreaterThanOrEqual" /\ OperandsValid) =>
    LET smaller == SmallerThanOrEqual(args[1], args[2])
    IN  IF SameTriple(args[1], args[2])
          THEN ret.ok /\ smaller.ok
          ELSE ret.ok # smaller.ok

\* C9: the error for an operand that fails validation names the operand, as
\* the operation called names it (version, compare, start, end), and carries
\* its text; the first invalid operand in argument order is the one reported.
C9_ErrorNamesTheOperand ==
  /\ IsComparison =>
       IF ~Valid(args[1]) THEN ret.err = InvalidErr("version", args[1])
       ELSE ~Valid(args[2]) => ret.err = InvalidErr("compare", args[2])
  /\ op = "InRange" =>
       IF ~Valid(args[1]) THEN ret.err = InvalidErr("version", args[1])
       ELSE IF ~Valid(args[2]) THEN ret.err = InvalidErr("start", args[2])
       ELSE (args[3] # <<>> /\ ~Valid(args[3]))
              => ret.err = InvalidErr("end", args[3])

\* C10: parsing cannot fail once validation has run: buildVersion returns no
\* error for a string Valid accepts, so a comparison whose operands are all
\* valid (the end of InRange valid or empty) returns a nil error.
C10_ValidOperandsParse ==
  OperandsValid =>
    /\ \A i \in 1..Len(args) : args[i] # <<>> => buildVersion(args[i]).err = NoErr
    /\ ret.err = NoErr

====
